---- MODULE Spec2Model ----
(***************************************************************************)
(* Model of app/static/script.js: the chat widget's submit handler and     *)
(* appendMessage.  Texts are sequences of one-character strings, so that   *)
(* trimming, concatenation and JSON serialisation are computed character   *)
(* by character as String.prototype.trim, + and JSON.stringify do.         *)
(***************************************************************************)
EXTENDS Integers, Sequences, FiniteSets, TLC

VARIABLES value, chatWindow, scrollTop, calls, inv, owner

vars == <<value, chatWindow, scrollTop, calls, inv, owner>>

(* ---------------------------------------------------------------- bounds *)

\* number of submit events dispatched in one behaviour
MaxSubmits == 2

(* ------------------------------------------------------- texts, trimming *)

\* characters the user can type; " " is the whitespace String.prototype.trim strips
Alphabet == {" ", "a"}

WhiteSpace == {" "}

\* the values the user leaves in the input field: empty, blank, padded on
\* both sides, and with an inner blank
InputValues ==
    { <<>>, <<" ">>, <<" ", "a", " ">>, <<"a", " ", "a">> }

RECURSIVE TrimStart(_)
TrimStart(s) ==
    IF s # <<>> /\ Head(s) \in WhiteSpace THEN TrimStart(Tail(s)) ELSE s

RECURSIVE TrimEnd(_)
TrimEnd(s) ==
    IF s # <<>> /\ s[Len(s)] \in WhiteSpace THEN TrimEnd(SubSeq(s, 1, Len(s) - 1)) ELSE s

\* a trim that strips leading whitespace only
Trim_StartOnly(s) == TrimStart(s)

\* userInput.value.trim()
Trim(s) == TrimEnd(TrimStart(s))

(* ------------------------------------------------------------ JSON values *)

\* the value of a JSON body after response.json(): null, a string or an
\* object whose fields (in insertion order) hold null, strings or the empty
\* array
Null == [type |-> "null", s |-> <<>>, fields |-> <<>>]

Undefined == [type |-> "undefined", s |-> <<>>, fields |-> <<>>]

EmptyArray == [type |-> "array", s |-> <<>>, fields |-> <<>>]

Str(s) == [type |-> "string", s |-> s, fields |-> <<>>]

Obj(fields) == [type |-> "object", s |-> <<>>, fields |-> fields]

Field(k, v) == [key |-> k, val |-> v]

RECURSIVE Escape(_)
Escape(s) ==
    IF s = <<>> THEN <<>>
    ELSE (IF Head(s) \in {"\"", "\\"} THEN <<"\\", Head(s)>> ELSE <<Head(s)>>) \o Escape(Tail(s))

Quote(s) == <<"\"">> \o Escape(s) \o <<"\"">>

RECURSIVE Stringify(_)
RECURSIVE StringifyFields(_)
StringifyFields(fs) ==
    IF fs = <<>> THEN <<>>
    ELSE Quote(fs[1].key) \o <<":">> \o Stringify(fs[1].val)
         \o (IF Len(fs) > 1 THEN <<",">> ELSE <<>>) \o StringifyFields(Tail(fs))

\* JSON.stringify(data)
Stringify(v) ==
    CASE v.type = "null"   -> <<"n", "u", "l", "l">>
      [] v.type = "string" -> Quote(v.s)
      [] v.type = "array"  -> <<"[", "]">>
      [] v.type = "object" -> <<"{">> \o StringifyFields(v.fields) \o <<"}">>

\* data.key for a non-null data: the field's value, undefined when the object
\* has no such field or data is a primitive string
Get(data, k) ==
    IF \E n \in 1..Len(data.fields) : data.fields[n].key = k
    THEN data.fields[CHOOSE n \in 1..Len(data.fields) : data.fields[n].key = k].val
    ELSE Undefined

\* ToBoolean, as || applies it
Truthy(v) ==
    CASE v.type = "undefined" -> FALSE
      [] v.type = "null"      -> FALSE
      [] v.type = "string"    -> v.s # <<>>
      [] v.type = "array"     -> TRUE
      [] v.type = "object"    -> TRUE

\* the string msg.textContent = text stores: ToText of the value, which
\* for an array joins its elements
ToText(v) ==
    CASE v.type = "string" -> v.s
      [] v.type = "array"  -> <<>>
      [] v.type = "object" -> <<"[", "o", "b", "j", "e", "c", "t", " ", "O", "b", "j", "e", "c", "t", "]">>

(* --------------------------------------------------------------- literals *)

ReplyKey == <<"r", "e", "p", "l", "y">>

ResponseKey == <<"r", "e", "s", "p", "o", "n", "s", "e">>

MessageKey == <<"m", "e", "s", "s", "a", "g", "e">>

ErrorPrefix == <<"E", "r", "r", "o", "r", ":", " ">>

ServerError == <<"S", "e", "r", "v", "e", "r", " ", "e", "r", "r", "o", "r">>

\* err.message of the TypeError raised by reading data.reply of null
NullReadError == <<"C", "a", "n", "n", "o", "t", " ", "r", "e", "a", "d", " ", "p", "r", "o", "p", "e", "r", "t", "i", "e", "s", " ", "o", "f", " ", "n", "u", "l", "l", " ", "(", "r", "e", "a", "d", "i", "n", "g", " ", "'", "r", "e", "p", "l", "y", "'", ")">>

(* ------------------------------------------------- what the network does *)

Hi == <<"h", "i">>

Yo == <<"y", "o">>

\* status codes a response can carry
Statuses == {200, 404}

\* bodies response.json() can resolve with
Bodies ==
    { Obj(<<Field(ReplyKey, Str(Hi))>>),
      Obj(<<Field(ResponseKey, Str(Hi))>>),
      Obj(<<Field(ResponseKey, Str(Yo)), Field(ReplyKey, Str(Hi))>>),
      Obj(<<>>),
      Obj(<<Field(ReplyKey, Str(<<>>)), Field(ResponseKey, Str(Yo))>>),
      Obj(<<Field(ResponseKey, Str(<<>>))>>),
      Obj(<<Field(ReplyKey, EmptyArray)>>),
      Null }

\* messages of the TypeError fetch rejects with when no response arrives
TransportErrors ==
    { <<"n", "e", "t", "w", "o", "r", "k", " ", "d", "o", "w", "n">> }

\* messages of the SyntaxError response.json() rejects with when the body is not JSON
JsonErrors ==
    { <<"U", "n", "e", "x", "p", "e", "c", "t", "e", "d", " ", "e", "n", "d", " ", "o", "f", " ", "J", "S", "O", "N", " ", "i", "n", "p", "u", "t">> }

(* ------------------------------------------------------------------- DOM *)

\* height of one rendered chat message and of the chat window's viewport
MsgHeight == 1

ClientHeight == 2

Max(a, b) == IF a >= b THEN a ELSE b

\* chatWindow.scrollHeight when the window holds the children w
ScrollHeight(w) == Max(ClientHeight, Len(w) * MsgHeight)

\* the value scrollTop holds after the assignment chatWindow.scrollTop = v:
\* the element clamps it to its scrollable range
SetScrollTop(v, w) ==
    IF v < 0 THEN 0
    ELSE IF v > ScrollHeight(w) - ClientHeight THEN ScrollHeight(w) - ClientHeight
    ELSE v

\* the child appendMessage(text, sender) adds to chatWindow
Message(text, sender) == [text |-> text, sender |-> sender]

\* an appendMessage that replaces the window's content by the new message
appendMessage_Reset(text, sender, i) ==
    /\ chatWindow' = <<Message(text, sender)>>
    /\ owner' = <<i>>
    /\ scrollTop' = SetScrollTop(ScrollHeight(chatWindow'), chatWindow')

\* an appendMessage that inserts the new message before the first child
appendMessage_Prepend(text, sender, i) ==
    /\ chatWindow' = <<Message(text, sender)>> \o chatWindow
    /\ owner' = <<i>> \o owner
    /\ scrollTop' = SetScrollTop(ScrollHeight(chatWindow'), chatWindow')

\* an appendMessage that leaves the scroll position alone
appendMessage_NoScroll(text, sender, i) ==
    /\ chatWindow' = Append(chatWindow, Message(text, sender))
    /\ owner' = Append(owner, i)
    /\ scrollTop' = scrollTop

\* appendMessage(text, sender), called by invocation i of the submit handler
appendMessage(text, sender, i) ==
    /\ chatWindow' = Append(chatWindow, Message(text, sender))
    /\ owner' = Append(owner, i)
    /\ scrollTop' = SetScrollTop(ScrollHeight(chatWindow'), chatWindow')

(* ---------------------------------------------------- the submit handler *)

\* an ok that takes every status below 500 for a success
Ok_Below500(status) == status >= 200 /\ status < 500

\* response.ok
Ok(status) == status >= 200 /\ status <= 299

\* JSON.stringify({ message })
RequestBody(message) == Stringify(Obj(<<Field(MessageKey, Str(message))>>))

\* the call fetch('/api/chat', {...}) makes
Request(message, i) ==
    [ url |-> "/api/chat", method |-> "POST", contentType |-> "application/json",
      body |-> RequestBody(message), by |-> i ]

NoData == Undefined

\* one invocation of the submit handler: the value it read, the trimmed
\* message, where it stands, and what its fetch and json() settled with
Invocation(raw, message, pc) ==
    [ raw |-> raw, message |-> message, pc |-> pc,
      status |-> 0, data |-> NoData, err |-> <<>> ]

\* data.reply || data.response || JSON.stringify(data), for a non-null data,
\* as appendMessage stores it in textContent
ReplyText(data) ==
    IF Truthy(Get(data, ReplyKey)) THEN ToText(Get(data, ReplyKey))
    ELSE IF Truthy(Get(data, ResponseKey)) THEN ToText(Get(data, ResponseKey))
    ELSE Stringify(data)

\* a catch block that shows the bare message
ErrorText_NoPrefix(m) == m

\* the catch block's text
ErrorText(m) == ErrorPrefix \o m

Init ==
    /\ value = <<>>
    /\ chatWindow = <<>>
    /\ scrollTop = 0
    /\ calls = <<>>
    /\ inv = <<>>
    /\ owner = <<>>

\* the user edits the input field
Type(v) ==
    /\ v # value
    /\ value' = v
    /\ UNCHANGED <<chatWindow, scrollTop, calls, inv, owner>>

\* a handler that returns only on the empty string, without trimming
Submit_NoTrim ==
    /\ Len(inv) < MaxSubmits
    /\ LET message == value
           i == Len(inv) + 1
       IN  IF message = <<>>
           THEN /\ inv' = Append(inv, Invocation(value, message, "returned"))
                /\ UNCHANGED <<value, chatWindow, scrollTop, calls, owner>>
           ELSE /\ appendMessage(message, "user", i)
                /\ value' = <<>>
                /\ calls' = Append(calls, Request(message, i))
                /\ inv' = Append(inv, Invocation(value, message, "fetch"))

\* a handler that ignores a submit while a request is outstanding
Submit_Blocking ==
    /\ Len(inv) < MaxSubmits
    /\ \A k \in 1..Len(inv) : inv[k].pc \notin {"fetch", "json"}
    /\ LET message == Trim(value)
           i == Len(inv) + 1
       IN  IF message = <<>>
           THEN /\ inv' = Append(inv, Invocation(value, message, "returned"))
                /\ UNCHANGED <<value, chatWindow, scrollTop, calls, owner>>
           ELSE /\ appendMessage(message, "user", i)
                /\ value' = <<>>
                /\ calls' = Append(calls, Request(message, i))
                /\ inv' = Append(inv, Invocation(value, message, "fetch"))

\* a handler that stops answering once a request has failed
Submit_DeadAfterError ==
    /\ Len(inv) < MaxSubmits
    /\ \A k \in 1..Len(inv) : inv[k].err = <<>>
    /\ LET message == Trim(value)
           i == Len(inv) + 1
       IN  IF message = <<>>
           THEN /\ inv' = Append(inv, Invocation(value, message, "returned"))
                /\ UNCHANGED <<value, chatWindow, scrollTop, calls, owner>>
           ELSE /\ appendMessage(message, "user", i)
                /\ value' = <<>>
                /\ calls' = Append(calls, Request(message, i))
                /\ inv' = Append(inv, Invocation(value, message, "fetch"))

\* a handler that issues its call without showing the user's message
Submit_NoUserAppend ==
    /\ Len(inv) < MaxSubmits
    /\ LET message == Trim(value)
           i == Len(inv) + 1
       IN  IF message = <<>>
           THEN /\ inv' = Append(inv, Invocation(value, message, "returned"))
                /\ UNCHANGED <<value, chatWindow, scrollTop, calls, owner>>
           ELSE /\ value' = <<>>
                /\ calls' = Append(calls, Request(message, i))
                /\ inv' = Append(inv, Invocation(value, message, "fetch"))
                /\ UNCHANGED <<chatWindow, scrollTop, owner>>

\* a submit event: the handler runs up to its return or to await fetch(...)
Submit ==
    /\ Len(inv) < MaxSubmits
    /\ LET message == Trim(value)
           i == Len(inv) + 1
       IN  IF message = <<>>
           THEN /\ inv' = Append(inv, Invocation(value, message, "returned"))
                /\ UNCHANGED <<value, chatWindow, scrollTop, calls, owner>>
           ELSE /\ appendMessage(message, "user", i)
                /\ value' = <<>>
                /\ calls' = Append(calls, Request(message, i))
                /\ inv' = Append(inv, Invocation(value, message, "fetch"))

\* a handler that reports a bad status and goes on to read the body
FetchResolve_NoThrow(i, status) ==
    /\ inv[i].pc = "fetch"
    /\ IF ~Ok(status)
       THEN /\ appendMessage(ErrorText(ServerError), "agent", i)
            /\ inv' = [inv EXCEPT ![i].pc = "json", ![i].status = status, ![i].err = ServerError]
       ELSE /\ inv' = [inv EXCEPT ![i].pc = "json", ![i].status = status]
            /\ UNCHANGED <<chatWindow, scrollTop, owner>>
    /\ UNCHANGED <<value, calls>>

\* fetch resolves with a response for invocation i: the handler resumes, and
\* either throws into its catch block or suspends again at await response.json()
FetchResolve(i, status) ==
    /\ inv[i].pc = "fetch"
    /\ IF ~Ok(status)
       THEN /\ appendMessage(ErrorText(ServerError), "agent", i)
            /\ inv' = [inv EXCEPT ![i].pc = "done", ![i].status = status , ![i].err = ServerError]
       ELSE /\ inv' = [inv EXCEPT ![i].pc = "json", ![i].status = status]
            /\ UNCHANGED <<chatWindow, scrollTop, owner>>
    /\ UNCHANGED <<value, calls>>

\* a catch block that sends the request again
FetchReject_Retry(i, m) ==
    /\ inv[i].pc = "fetch"
    /\ appendMessage(ErrorText(m), "agent", i)
    /\ inv' = [inv EXCEPT ![i].pc = "done", ![i].err = m]
    /\ calls' = Append(calls, Request(inv[i].message, i))
    /\ UNCHANGED value

\* fetch rejects for invocation i with an error whose message is m
FetchReject(i, m) ==
    /\ inv[i].pc = "fetch"
    /\ appendMessage(ErrorText(m), "agent", i)
    /\ inv' = [inv EXCEPT ![i].pc = "done", ![i].err = m]
    /\ UNCHANGED <<value, calls>>

\* a handler that empties the input field again when the reply arrives
JsonResolve_ClearsInput(i, data) ==
    /\ inv[i].pc = "json"
    /\ IF data.type = "null"
       THEN /\ appendMessage(ErrorText(NullReadError), "agent", i)
            /\ inv' = [inv EXCEPT ![i].pc = "done", ![i].data = data,
                                  ![i].err = NullReadError]
       ELSE /\ appendMessage(ReplyText(data), "agent", i)
            /\ inv' = [inv EXCEPT ![i].pc = "done", ![i].data = data]
    /\ value' = <<>>
    /\ UNCHANGED calls

\* response.json() resolves with data for invocation i
JsonResolve(i, data) ==
    /\ inv[i].pc = "json"
    /\ IF data.type = "null"
       THEN /\ appendMessage(ErrorText(NullReadError), "agent", i)
            /\ inv' = [inv EXCEPT ![i].pc = "done", ![i].data = data,
                                  ![i].err = NullReadError]
       ELSE /\ appendMessage(ReplyText(data), "agent", i)
            /\ inv' = [inv EXCEPT ![i].pc = "done", ![i].data = data]
    /\ UNCHANGED <<value, calls>>

\* a catch block that swallows the error
JsonReject_Silent(i, m) ==
    /\ inv[i].pc = "json"
    /\ inv' = [inv EXCEPT ![i].pc = "done", ![i].err = m]
    /\ UNCHANGED <<value, calls, chatWindow, scrollTop, owner>>

\* response.json() rejects for invocation i: the body is not JSON
JsonReject(i, m) ==
    /\ inv[i].pc = "json"
    /\ appendMessage(ErrorText(m), "agent", i)
    /\ inv' = [inv EXCEPT ![i].pc = "done", ![i].err = m]
    /\ UNCHANGED <<value, calls>>

Next ==
    \/ \E v \in InputValues : Type(v)
    \/ Submit
    \/ \E i \in 1..Len(inv), status \in Statuses : FetchResolve(i, status)
    \/ \E i \in 1..Len(inv), m \in TransportErrors : FetchReject(i, m)
    \/ \E i \in 1..Len(inv), data \in Bodies : JsonResolve(i, data)
    \/ \E i \in 1..Len(inv), m \in JsonErrors : JsonReject(i, m)

Spec == Init /\ [][Next]_vars

(* ------------------------------------------- vocabulary of the properties *)

IsBlank(v) == \A n \in 1..Len(v) : v[n] \in WhiteSpace

\* t is v without its leading and trailing whitespace
IsTrimOf(t, v) ==
    \E a \in 1..(Len(v) + 1), b \in 0..Len(v) :
        /\ t = SubSeq(v, a, b)
        /\ \A n \in 1..(a - 1) : v[n] \in WhiteSpace
        /\ \A n \in (b + 1)..Len(v) : v[n] \in WhiteSpace
        /\ t # <<>> => (t[1] \notin WhiteSpace /\ t[Len(t)] \notin WhiteSpace)

Accepted(i) == inv[i].pc # "returned"

Pending(i) == inv[i].pc \in {"fetch", "json"}

InFlight == {i \in 1..Len(inv) : Pending(i)}

UserMsgs(i) == {n \in 1..Len(chatWindow) : owner[n] = i /\ chatWindow[n].sender = "user"}

AgentMsgs(i) == {n \in 1..Len(chatWindow) : owner[n] = i /\ chatWindow[n].sender = "agent"}

\* the submission received a 2xx response and its body was parsed
Succeeded(i) == inv[i].pc = "done" /\ inv[i].status \in 200..299 /\ inv[i].data.type # "undefined"

HasField(d, k) == d.type = "object" /\ \E n \in 1..Len(d.fields) : d.fields[n].key = k

HasStringField(d, k) ==
    d.type = "object" /\ \E n \in 1..Len(d.fields) : d.fields[n].key = k /\ d.fields[n].val.type = "string"

FieldText(d, k) == d.fields[CHOOSE n \in 1..Len(d.fields) : d.fields[n].key = k].val.s

\* the submission has exactly one agent message, and its text is t
AgentTextIs(i, t) ==
    /\ Cardinality(AgentMsgs(i)) = 1
    /\ \A n \in AgentMsgs(i) : chatWindow[n].text = t

StartsWithError(t) ==
    Len(t) >= 7 /\ SubSeq(t, 1, 7) = <<"E", "r", "r", "o", "r", ":", " ">>

\* a step in which the submit handler was entered
SubmitStep == Len(inv') = Len(inv) + 1

(* ------------------------------------------------------------------ C1 *)

\* C1: a submit whose input is non-empty after trimming appends exactly one
\* message, sender user and text the trimmed input, and leaves the input
\* field empty, whatever requests are in flight.
C1_SubmitAppendsTrimmed ==
    [][ (SubmitStep /\ ~IsBlank(value)) =>
            /\ Len(chatWindow') = Len(chatWindow) + 1
            /\ SubSeq(chatWindow', 1, Len(chatWindow)) = chatWindow
            /\ chatWindow'[Len(chatWindow')].sender = "user"
            /\ IsTrimOf(chatWindow'[Len(chatWindow')].text, value)
            /\ value' = <<>> ]_vars

\* a padded input was submitted while an earlier request was outstanding
C1_Witness ==
    \E i, j \in 1..Len(inv) :
        /\ i < j /\ Pending(i) /\ Accepted(j)
        /\ inv[j].raw = <<" ", "a", " ">>
        /\ \E n \in UserMsgs(j) : chatWindow[n].text = <<"a">>
        /\ value = <<>>

(* ------------------------------------------------------------------ C2 *)

\* C2: a submit whose input is empty or all whitespace changes nothing: not
\* the log, not the input field, not the calls issued or in flight.
C2_BlankSubmitNoOp ==
    [][ (SubmitStep /\ IsBlank(value)) =>
            /\ chatWindow' = chatWindow
            /\ value' = value
            /\ calls' = calls
            /\ InFlight' = InFlight ]_vars

\* a whitespace-only input was submitted while a request was outstanding
C2_Witness ==
    \E i, j \in 1..Len(inv) :
        /\ i < j /\ Pending(i)
        /\ inv[j].pc = "returned" /\ inv[j].raw = <<" ">>
        /\ value = <<" ">>

(* ------------------------------------------------------------------ C3 *)

\* the body {"message":"<text>"} for a text without quotes or backslashes
MessageBody(text) ==
    <<"{", "\"", "m", "e", "s", "s", "a", "g", "e", "\"", ":", "\"">> \o text \o <<"\"", "}">>

\* C3: every accepted submission has issued exactly one call, a JSON POST to
\* /api/chat whose message is the text of its user message; rejected submits
\* have issued none, and no call is repeated after a failure.
C3_OneCallPerSubmission ==
    /\ \A i \in 1..Len(inv) :
          Cardinality({c \in 1..Len(calls) : calls[c].by = i}) = (IF Accepted(i) THEN 1 ELSE 0)
    /\ \A c \in 1..Len(calls) :
          /\ calls[c].by \in 1..Len(inv)
          /\ calls[c].url = "/api/chat"
          /\ calls[c].method = "POST"
          /\ calls[c].contentType = "application/json"
          /\ UserMsgs(calls[c].by) # {}
          /\ \A n \in UserMsgs(calls[c].by) :
                /\ calls[c].body = MessageBody(chatWindow[n].text)
                /\ IsTrimOf(chatWindow[n].text, inv[calls[c].by].raw)
                /\ chatWindow[n].text # <<>>

\* a submission of a padded input failed at the transport and one at the server
C3_Witness ==
    /\ \E i \in 1..Len(inv) :
          inv[i].pc = "done" /\ inv[i].status = 0 /\ inv[i].raw = <<" ", "a", " ">>
    /\ \E i \in 1..Len(inv) : inv[i].pc = "done" /\ inv[i].status = 404
    /\ Len(calls) = 2

(* ------------------------------------------------------------------ C4 *)

\* C4: for every 2xx response whose body holds a string field reply, the
\* submission's agent message is the value of reply, whether or not a
\* response field is present.
C4_ReplyShown ==
    \A i \in 1..Len(inv) :
        (Succeeded(i) /\ HasStringField(inv[i].data, ReplyKey)) =>
            AgentTextIs(i, FieldText(inv[i].data, ReplyKey))

(* ------------------------------------------------------------------ C5 *)

\* C5: for every 2xx response whose body holds a string field response and
\* no field reply, the submission's agent message is the value of response.
C5_ResponseShown ==
    \A i \in 1..Len(inv) :
        (/\ Succeeded(i)
         /\ HasStringField(inv[i].data, ResponseKey)
         /\ ~HasField(inv[i].data, ReplyKey)) =>
            AgentTextIs(i, FieldText(inv[i].data, ResponseKey))

(* ------------------------------------------------------------------ C6 *)

\* C6: for every 2xx response whose body is JSON with neither a reply nor a
\* response field, the submission's agent message is the serialised body,
\* and carries no "Error: " prefix.
C6_RawJsonShown ==
    \A i \in 1..Len(inv) :
        (/\ Succeeded(i)
         /\ ~HasField(inv[i].data, ReplyKey)
         /\ ~HasField(inv[i].data, ResponseKey)) =>
            /\ AgentTextIs(i, Stringify(inv[i].data))
            /\ \A n \in AgentMsgs(i) : ~StartsWithError(chatWindow[n].text)

(* ------------------------------------------------------------------ C7 *)

\* C7: for every response with a status outside 200..299 the submission's
\* agent message is exactly "Error: Server error", and the body is never
\* parsed.
C7_ServerError ==
    \A i \in 1..Len(inv) :
        (inv[i].status # 0 /\ inv[i].status \notin 200..299) =>
            /\ inv[i].pc = "done"
            /\ inv[i].data = NoData
            /\ AgentTextIs(i, <<"E", "r", "r", "o", "r", ":", " ",
                                "S", "e", "r", "v", "e", "r", " ", "e", "r", "r", "o", "r">>)

\* a 404 was answered while another submission had its 2xx body parsed
C7_Witness ==
    \E i, j \in 1..Len(inv) :
        /\ inv[i].status = 404 /\ AgentMsgs(i) # {}
        /\ Succeeded(j)

(* ------------------------------------------------------------------ C8 *)

\* the submission's fetch was rejected: no response, hence no status
TransportFailed(i) == inv[i].pc = "done" /\ inv[i].status = 0

\* C8: for every transport failure with message m the submission's agent
\* message is exactly "Error: " followed by m.
C8_TransportError ==
    \A i \in 1..Len(inv) :
        TransportFailed(i) =>
            AgentTextIs(i, <<"E", "r", "r", "o", "r", ":", " ">> \o inv[i].err)

\* a fetch was rejected with the message "network down"
C8_Witness ==
    \E i \in 1..Len(inv) :
        /\ TransportFailed(i)
        /\ inv[i].err = <<"n", "e", "t", "w", "o", "r", "k", " ", "d", "o", "w", "n">>
        /\ \E n \in AgentMsgs(i) : Len(chatWindow[n].text) = 19

(* ------------------------------------------------------------------ C9 *)

\* the handler can take a submit that appends a user message and issues a call
SubmitProceeds ==
    ENABLED (/\ Submit
             /\ Len(chatWindow') = Len(chatWindow) + 1
             /\ chatWindow'[Len(chatWindow')].sender = "user"
             /\ Len(calls') = Len(calls) + 1
             /\ InFlight' = InFlight \cup {Len(inv) + 1})

\* C9: while an earlier request is outstanding a further submit of a
\* non-blank input is not blocked: it appends its user message and issues its
\* own request, and the earlier request stays outstanding.  (Agent messages
\* landing in arrival order, a later submission's before an earlier one's, is
\* the state C9_Witness describes.)
C9_OverlappingSubmitsProceed ==
    (InFlight # {} /\ Len(inv) < MaxSubmits /\ ~IsBlank(value)) => SubmitProceeds

\* the later submission's agent message precedes the earlier submission's
C9_Witness ==
    \E i, j \in 1..Len(inv) :
        /\ i < j
        /\ \E n \in AgentMsgs(i), m \in AgentMsgs(j), u \in UserMsgs(j) : m < n /\ u < m

(* ----------------------------------------------------------------- C10 *)

\* C10: a submission whose call has settled has exactly one agent message, a
\* submission still waiting has none, and the log holds nothing but the user
\* and agent messages of accepted submissions.
C10_OneAgentMessageOnceSettled ==
    /\ \A i \in 1..Len(inv) :
          /\ Cardinality(AgentMsgs(i)) = (IF inv[i].pc = "done" THEN 1 ELSE 0)
          /\ Cardinality(UserMsgs(i)) = (IF Accepted(i) THEN 1 ELSE 0)
    /\ Len(chatWindow) =
          Cardinality({i \in 1..Len(inv) : Accepted(i)})
          + Cardinality({i \in 1..Len(inv) : inv[i].pc = "done"})
    /\ \A n \in 1..Len(chatWindow) : owner[n] \in 1..Len(inv)

\* one submission settled by a rejected json(), another still waiting
C10_Witness ==
    \E i, j \in 1..Len(inv) :
        /\ inv[i].pc = "done" /\ inv[i].status = 200 /\ inv[i].data = NoData
        /\ Pending(j) /\ AgentMsgs(j) = {}
        /\ Len(chatWindow) = 3

(* ----------------------------------------------------------------- C11 *)

\* the submission ended in the catch block
Failed(i) == inv[i].pc = "done" /\ inv[i].err # <<>>

\* the handler can take a submit that appends the trimmed value as a user
\* message, empties the field and issues the call carrying that text
SubmitWorks ==
    ENABLED (/\ Submit
             /\ Len(chatWindow') = Len(chatWindow) + 1
             /\ SubSeq(chatWindow', 1, Len(chatWindow)) = chatWindow
             /\ chatWindow'[Len(chatWindow')].sender = "user"
             /\ IsTrimOf(chatWindow'[Len(chatWindow')].text, value)
             /\ value' = <<>>
             /\ Len(calls') = Len(calls) + 1
             /\ SubSeq(calls', 1, Len(calls)) = calls
             /\ calls'[Len(calls')].body = MessageBody(chatWindow'[Len(chatWindow')].text))

\* C11: after a failure of any submission (transport failure, non-2xx status)
\* a submit of a non-blank input still appends its user message, clears the
\* input and issues its request.
C11_UsableAfterFailure ==
    ((\E i \in 1..Len(inv) : Failed(i)) /\ Len(inv) < MaxSubmits /\ ~IsBlank(value))
        => SubmitWorks

\* a submission was accepted after an earlier one had shown its error
C11_Witness ==
    \E i, j \in 1..Len(inv) :
        /\ i < j /\ Failed(i) /\ inv[i].data = NoData /\ Accepted(j)
        /\ \E n \in AgentMsgs(i), u \in UserMsgs(j) : n < u
        /\ \E c \in 1..Len(calls) : calls[c].by = j

(* ----------------------------------------------------------------- C12 *)

\* C12: the log is append-only: every step leaves the earlier log as a
\* prefix of the new one, so no message is removed, reordered or changed.
C12_AppendOnly ==
    [][ /\ Len(chatWindow') >= Len(chatWindow)
        /\ SubSeq(chatWindow', 1, Len(chatWindow)) = chatWindow ]_vars

\* two submissions and their two answers are in the log
C12_Witness ==
    /\ Len(chatWindow) = 4
    /\ chatWindow[1].sender = "user"
    /\ chatWindow[4].sender = "agent"

(* ----------------------------------------------------------------- C13 *)

\* C13 as stated: after each appendMessage the scroll position equals the
\* container's full content height.
C13_ScrollTopIsScrollHeight ==
    [][ Len(chatWindow') > Len(chatWindow) => scrollTop' = ScrollHeight(chatWindow') ]_vars

\* C13 as amended: after each appendMessage the window is scrolled as far
\* down as it goes, its scroll position being the content height less the
\* height of the viewport, so that the last message is in view.
C13_ScrolledToBottom ==
    [][ Len(chatWindow') > Len(chatWindow) =>
            /\ scrollTop' = ScrollHeight(chatWindow') - ClientHeight
            /\ scrollTop' + ClientHeight >= Len(chatWindow') * MsgHeight ]_vars

\* the content has outgrown the viewport and the window has scrolled
C13_Witness ==
    /\ Len(chatWindow) * MsgHeight > ClientHeight
    /\ scrollTop > 0
    /\ chatWindow[Len(chatWindow)].sender = "agent"

(* ----------------------------------------------------------------- C14 *)

\* C14: the catch block's "Error: " message is produced only for a transport
\* failure or a non-2xx status, and every 2xx response ends in an agent
\* message built from the body, not in an error message.
C14_TwoErrorKindsOnly ==
    \A i \in 1..Len(inv) :
        /\ Failed(i) => (inv[i].status = 0 \/ inv[i].status \notin 200..299)
        /\ (inv[i].pc = "done" /\ inv[i].status \in 200..299) =>
              \A n \in AgentMsgs(i) : ~StartsWithError(chatWindow[n].text)

(* ----------------------------------------------------------------- C15 *)

\* C15: every message in the log has a non-empty text and sender user or
\* agent; user messages come from the submit step (the submission's first
\* message) and agent messages from the response or failure step.
C15_MessagesWellFormed ==
    \A n \in 1..Len(chatWindow) :
        /\ chatWindow[n].text # <<>>
        /\ chatWindow[n].sender \in {"user", "agent"}
        /\ chatWindow[n].sender = "user" => Accepted(owner[n])
        /\ chatWindow[n].sender = "agent" => inv[owner[n]].pc = "done"

(* ----------------------------------------------------------------- C16 *)

UserCount == Cardinality({n \in 1..Len(chatWindow) : chatWindow[n].sender = "user"})

AgentCount == Cardinality({n \in 1..Len(chatWindow) : chatWindow[n].sender = "agent"})

\* C16: the log never holds more agent messages than user messages, and the
\* difference is the number of requests still outstanding.
C16_AgentsAnswerUsers ==
    /\ AgentCount <= UserCount
    /\ UserCount - AgentCount = Cardinality(InFlight)

\* one answered and one outstanding submission, the latter awaiting its body
C16_Witness ==
    /\ UserCount = 2 /\ AgentCount = 1
    /\ \E i \in 1..Len(inv) : inv[i].pc = "json"

(* ----------------------------------------------------------------- C17 *)

\* C17: the agent message of a submission comes strictly after that
\* submission's user message in the log, and a submission whose call has been
\* issued has its user message in the log.
C17_AgentAfterOwnUser ==
    /\ \A i \in 1..Len(inv) :
          \A n \in AgentMsgs(i) : \E u \in UserMsgs(i) : u < n
    /\ \A c \in 1..Len(calls) : UserMsgs(calls[c].by) # {}

\* overlapping submissions answered in reverse order
C17_Witness ==
    /\ Len(inv) = 2
    /\ owner = <<1, 2, 2, 1>>
    /\ chatWindow[3].sender = "agent"

(* ----------------------------------------------------------------- C18 *)

\* C18: the user message of an earlier accepted submission precedes that of
\* a later one, whatever the order of the responses.
C18_UserMessagesInSubmitOrder ==
    \A i, j \in 1..Len(inv) :
        i < j => \A u \in UserMsgs(i), w \in UserMsgs(j) : u < w

\* the later submission was answered first, between the two answers
C18_Witness ==
    \E i, j \in 1..Len(inv) :
        /\ i < j /\ Pending(i) /\ inv[j].pc = "done"
        /\ UserMsgs(i) # {} /\ UserMsgs(j) # {}

(* ----------------------------------------------------------------- C19 *)

\* a step in which a response or a failure arrived for some submission
ArrivalStep ==
    /\ Len(inv') = Len(inv)
    /\ \E i \in 1..Len(inv) : inv'[i].pc # inv[i].pc

\* a step in which some submission was settled
SettleStep ==
    /\ Len(inv') = Len(inv)
    /\ \E i \in 1..Len(inv) : inv[i].pc # "done" /\ inv'[i].pc = "done"

\* C19: the arrival of a response or failure leaves the input field value
\* and the calls issued unchanged; it changes only the log, by the one agent
\* message appended when the submission settles, and the scroll position.
C19_ArrivalFrame ==
    [][ ArrivalStep =>
            /\ value' = value
            /\ calls' = calls
            /\ SubSeq(chatWindow', 1, Len(chatWindow)) = chatWindow
            /\ Len(chatWindow') = Len(chatWindow) + (IF SettleStep THEN 1 ELSE 0)
            /\ SettleStep => chatWindow'[Len(chatWindow')].sender = "agent" ]_vars

\* a reply was shown while the field held typed text
C19_Witness ==
    /\ value = <<"a", " ", "a">>
    /\ \E i \in 1..Len(inv) : Succeeded(i) /\ AgentMsgs(i) # {}
    /\ chatWindow[Len(chatWindow)].sender = "agent"

====
